---- MODULE Spec2Model ----
(***************************************************************************)
(* Verification model of the ai-food-scan mobile client: the routine       *)
(* store (store/routineStore.ts), the additive-code normalisers and        *)
(* extractors of the screens, and the interaction-check orchestration of   *)
(* screens/InteractionCheckScreen.tsx and screens/InsightsScreen.tsx.      *)
(*                                                                         *)
(* Strings are sequences of one-character strings, so that trimming,       *)
(* upper-casing, regular-expression matching and lexicographic order are   *)
(* computed, not assumed.                                                  *)
(***************************************************************************)
EXTENDS Integers, Sequences, FiniteSets, TLC

(***************************************************************************)
(* Characters and strings                                                  *)
(***************************************************************************)

\* The characters the inputs are drawn from, in UTF-16 code-unit order.
Alphabet == <<" ", "-", "0", "1", "2", "3", "E", "G", "I", "e", "i">>

\* Position of a character in code-unit order (what Array.prototype.sort compares).
CodeUnit(c) == CHOOSE i \in 1..Len(Alphabet) : Alphabet[i] = c

IsDigit(c) == c \in {"0", "1", "2", "3"}

IsUpperLetter(c) == c \in {"E", "G", "I"}

IsSpace(c) == c = " "

UpperChar(c) == IF c = "e" THEN "E" ELSE IF c = "i" THEN "I" ELSE c

LowerChar(c) == IF c = "E" THEN "e" ELSE IF c = "I" THEN "i" ELSE IF c = "G" THEN "g" ELSE c

\* String.prototype.toUpperCase
toUpperCase(s) == [i \in 1..Len(s) |-> UpperChar(s[i])]

\* String.prototype.toLowerCase
toLowerCase(s) == [i \in 1..Len(s) |-> LowerChar(s[i])]

RECURSIVE TrimLeft(_)
TrimLeft(s) == IF s # <<>> /\ IsSpace(Head(s)) THEN TrimLeft(Tail(s)) ELSE s

RECURSIVE TrimRight(_)
TrimRight(s) ==
  IF s # <<>> /\ IsSpace(s[Len(s)]) THEN TrimRight(SubSeq(s, 1, Len(s) - 1)) ELSE s

\* String.prototype.trim
trim(s) == TrimRight(TrimLeft(s))

\* s.replace(/\s+/g, "")
StripSpaces(s) == SelectSeq(s, LAMBDA c : ~IsSpace(c))

\* Number of leading digits of s.
RECURSIVE DigitRun(_)
DigitRun(s) == IF s # <<>> /\ IsDigit(Head(s)) THEN 1 + DigitRun(Tail(s)) ELSE 0

AllUpperLetters(s) == \A i \in 1..Len(s) : IsUpperLetter(s[i])

Drop(s, n) == SubSeq(s, n + 1, Len(s))

Take(s, n) == SubSeq(s, 1, IF n < Len(s) THEN n ELSE Len(s))

\* a < b in the order of Array.prototype.sort() without a comparator.
RECURSIVE LexLess(_, _)
LexLess(a, b) ==
  IF b = <<>> THEN FALSE
  ELSE IF a = <<>> THEN TRUE
  ELSE IF Head(a) = Head(b) THEN LexLess(Tail(a), Tail(b))
  ELSE CodeUnit(Head(a)) < CodeUnit(Head(b))

ToSet(s) == {s[i] : i \in 1..Len(s)}

\* The value of a JavaScript null or undefined token.
NullTok == <<"null">>

\* String(x ?? "")
StringOf(x) == IF x = NullTok THEN <<>> ELSE x

\* new Set(arr) then Array.from: first occurrences, in insertion order.
RECURSIVE Dedupe(_)
Dedupe(arr) ==
  IF arr = <<>> THEN <<>>
  ELSE LET init == Dedupe(SubSeq(arr, 1, Len(arr) - 1))
           x == arr[Len(arr)]
       IN IF x \in ToSet(init) THEN init ELSE Append(init, x)

(***************************************************************************)
(* Optional values: an absent (undefined) field is None, a present one is  *)
(* Some(v).                                                                *)
(***************************************************************************)
None == <<>>

Some(v) == <<v>>

IsSome(o) == o # <<>>

Val(o) == o[1]

\* a ?? b on an optional a
OrElse(o, d) == IF IsSome(o) THEN Val(o) ELSE d

\* findIndex over the sequence of the predicate's values: the smallest index
\* that holds TRUE, 0 when there is none (findIndex's -1).
FindIndex(hits) ==
  IF \E i \in 1..Len(hits) : hits[i]
  THEN CHOOSE i \in 1..Len(hits) : hits[i] /\ \A j \in 1..(i - 1) : ~hits[j]
  ELSE 0

\* Decimal rendering of a natural number (template literal `${n}`).
RECURSIVE NumStr(_)
NumStr(n) ==
  LET d == <<"0", "1", "2", "3", "4", "5", "6", "7", "8", "9">>[(n % 10) + 1]
  IN IF n < 10 THEN <<d>> ELSE Append(NumStr(n \div 10), d)

(***************************************************************************)
(* store/routineStore.ts: normalisers                                      *)
(***************************************************************************)

\* Array.from(new Set(arr.filter(Boolean)))
uniq(arr) == Dedupe(SelectSeq(arr, LAMBDA x : x # <<>>))

\* /^\d{3,4}[A-Z]*$/.test(s)
MatchesDigitsLetters(s) ==
  \E k \in {3, 4} : Len(s) >= k /\ DigitRun(s) >= k /\ AllUpperLetters(Drop(s, k))

\* null is rendered as the empty string: a returned string is never empty
\* and every caller tests the result for truthiness only.
normalizeENumberToken(x) ==
  LET s == StripSpaces(toUpperCase(trim(StringOf(x))))
  IN IF s = <<>> THEN <<>>
     ELSE IF Head(s) = "E" THEN s
     ELSE IF MatchesDigitsLetters(s) THEN <<"E">> \o s
     ELSE <<>>

\* s.match(/^E\d{3,4}/): the matched prefix, <<>> for no match.
MatchEBase(s) ==
  IF s # <<>> /\ Head(s) = "E" /\ DigitRun(Tail(s)) >= 3
  THEN Take(s, 1 + (IF DigitRun(Tail(s)) >= 4 THEN 4 ELSE 3))
  ELSE <<>>

baseENumber(en) == MatchEBase(toUpperCase(en))

RECURSIVE deriveENumbersLoop(_)
deriveENumbersLoop(raw) ==
  IF raw = <<>> THEN <<>>
  ELSE LET t == normalizeENumberToken(Head(raw))
           b == baseENumber(t)
           rest == deriveENumbersLoop(Tail(raw))
       IN IF t = <<>> THEN rest
          ELSE IF b # <<>> THEN <<b>> \o rest ELSE rest

deriveENumbersFromRaw(raw) == uniq(deriveENumbersLoop(raw))

\* safeStr(x, fallback) for an optional string x
safeStr(x, fallback) ==
  LET s == IF IsSome(x) THEN trim(Val(x)) ELSE <<>>
  IN IF s # <<>> THEN s ELSE fallback

(***************************************************************************)
(* screens/InteractionCheckScreen.tsx: normE, expandE, extractENumbers     *)
(***************************************************************************)

IsSeparator(c) == IsSpace(c) \/ c = "-"

\* The groups of s.match(/^E[\s\-]?(\d+)([A-Z]+)?$/) when sepAllowed, of
\* s.match(/^E(\d+)([A-Z]+)?$/) otherwise: <<digits, letters>>, <<>> for no match.
MatchELoose(s, sepAllowed) ==
  IF s = <<>> \/ Head(s) # "E" THEN <<>>
  ELSE LET rest == IF sepAllowed /\ Len(s) >= 2 /\ IsSeparator(s[2]) THEN Drop(s, 2) ELSE Tail(s)
           d == DigitRun(rest)
       IN IF d >= 1 /\ AllUpperLetters(Drop(rest, d))
          THEN <<Take(rest, d), Drop(rest, d)>>
          ELSE <<>>

\* "" is rendered as <<>>.
normE(x) ==
  LET s == toUpperCase(trim(StringOf(x)))
      m == MatchELoose(s, TRUE)
  IN IF s = <<>> THEN <<>>
     ELSE IF IsDigit(Head(s)) THEN <<"E">> \o s
     ELSE IF m # <<>> THEN <<"E">> \o m[1] \o m[2]
     ELSE IF Head(s) = "E" THEN s
     ELSE <<>>

\* Expands E322I -> [E322I, E322]
expandE(e) ==
  LET n == normE(e)
      m == MatchELoose(n, FALSE)
  IN IF n = <<>> THEN <<>>
     ELSE IF m # <<>> THEN Dedupe(<<n, <<"E">> \o m[1]>>)
     ELSE <<n>>

\* Array.isArray(it?.field) ? it.field : nothing
ListField(it, field) == IF field \in DOMAIN it THEN it[field] ELSE <<>>

\* The candidates of one item, in the order the fields are probed.
Candidates(it) ==
  ListField(it, "additives") \o ListField(it, "off_additives")
    \o ListField(it, "product_additives") \o ListField(it, "e_numbers")
    \o ListField(it, "additives_e_numbers")

\* addToken over a list of candidates: the codes each token adds, in order.
RECURSIVE AddTokens(_)
AddTokens(cs) ==
  IF cs = <<>> THEN <<>>
  ELSE (IF normE(Head(cs)) = <<>> THEN <<>> ELSE expandE(normE(Head(cs)))) \o AddTokens(Tail(cs))

RECURSIVE AllCandidates(_)
AllCandidates(its) ==
  IF its = <<>> THEN <<>> ELSE Candidates(Head(its)) \o AllCandidates(Tail(its))

\* extractENumbers: Array.from of a Set filled in iteration order.
extractENumbers(its) == Dedupe(AddTokens(AllCandidates(its)))

\* eNumbers.join(",")
RECURSIVE Join(_)
Join(codes) ==
  IF codes = <<>> THEN <<>>
  ELSE IF Len(codes) = 1 THEN codes[1]
  ELSE codes[1] \o <<",">> \o Join(Tail(codes))

(***************************************************************************)
(* screens/InsightsScreen.tsx: normENumber, baseENumber,                   *)
(* extractRoutineENumbers                                                  *)
(***************************************************************************)

\* /^\d{3,4}[A-Z]?$/.test(s)
MatchesDigitsLetter(s) ==
  \E k \in {3, 4} :
    /\ Len(s) >= k /\ DigitRun(s) >= k
    /\ Len(s) <= k + 1 /\ AllUpperLetters(Drop(s, k))

normENumber(x) ==
  LET s == StripSpaces(toUpperCase(trim(StringOf(x))))
  IN IF s = <<>> THEN <<>>
     ELSE IF Head(s) = "E" THEN s
     ELSE IF MatchesDigitsLetter(s) THEN <<"E">> \o s
     ELSE <<>>

\* InsightsScreen's baseENumber: the upper-cased code itself when nothing matches.
baseENumberOrSelf(code) ==
  IF MatchEBase(toUpperCase(code)) # <<>> THEN MatchEBase(toUpperCase(code))
  ELSE toUpperCase(code)

\* rawList of one item: the first of e_numbers, additives_raw, additives that is an array.
RawList(it) ==
  IF "e_numbers" \in DOMAIN it THEN it.e_numbers
  ELSE IF "additives_raw" \in DOMAIN it THEN it.additives_raw
  ELSE IF "additives" \in DOMAIN it THEN it.additives
  ELSE <<>>

RECURSIVE AllRaw(_)
AllRaw(its) == IF its = <<>> THEN <<>> ELSE RawList(Head(its)) \o AllRaw(Tail(its))

RECURSIVE ExpandAll(_)
ExpandAll(codes) ==
  IF codes = <<>> THEN <<>>
  ELSE LET code == Head(codes)
           base == baseENumberOrSelf(code)
       IN (IF base # <<>> /\ base # code THEN <<code, base>> ELSE <<code>>)
            \o ExpandAll(Tail(codes))

\* Insertion of x into a sequence sorted by LexLess.
RECURSIVE SortedInsert(_, _)
SortedInsert(sorted, x) ==
  IF sorted = <<>> THEN <<x>>
  ELSE IF LexLess(x, Head(sorted)) THEN <<x>> \o sorted
  ELSE <<Head(sorted)>> \o SortedInsert(Tail(sorted), x)

\* arr.sort() without a comparator
RECURSIVE Sort(_)
Sort(arr) == IF arr = <<>> THEN <<>> ELSE SortedInsert(Sort(Tail(arr)), Head(arr))

extractRoutineENumbers(its) ==
  LET out == SelectSeq([i \in 1..Len(AllRaw(its)) |-> normENumber(AllRaw(its)[i])],
                       LAMBDA n : n # <<>>)
  IN Sort(Dedupe(ExpandAll(out)))

(***************************************************************************)
(* State                                                                   *)
(***************************************************************************)
VARIABLES
  routine,          \* globalThis.__aiFoodScanStore.routine (routineStore.ts:42-46)
  mounted,          \* the screen the navigator has mounted, "none" before it mounts one
  items,            \* InteractionCheckScreen: useState items
  loading,          \* InteractionCheckScreen: useState loading
  resp,             \* InteractionCheckScreen: useState resp (None for null)
  err,              \* InteractionCheckScreen: useState err ("" for no error)
  timer,            \* the pending setTimeout of the auto-run effect, with the runCheck it closes over
  inflight,         \* InteractionCheckScreen's requests to /interactions/check without a response yet
  issued,           \* number of requests InteractionCheckScreen has issued
  events,           \* globalThis.__aiFoodScanHistoryEvents.events (historyStore.ts:31-36)
  sheet,            \* InteractionCheckScreen: the sheet shown (useState sheet), None when closed
  routineItems,     \* InsightsScreen: useState routineItems
  insightsLoading,  \* InsightsScreen: useState loading
  report,           \* InsightsScreen: useState report (None for null)
  insightsRequest,  \* InsightsScreen's request to /interactions/check without a response yet
  whatIfItems,      \* the what-if InteractionCheckScreen (part_008): useState items
  excluded,         \* the what-if InteractionCheckScreen (part_008): useState excluded
  history,          \* globalThis.__aiFoodScanHistory.history (part_002:13-17)
  scanFocused,      \* ScanScreen: the screen is focused and its camera delivers onScanned
  scanMode,         \* ScanScreen: useState mode
  sheetBarcode,     \* ScanScreen (ScanScreen.tsx): the barcode of the product sheet, None when hidden
  lastScanRef,      \* ScanScreen: lastScanRef.current
  navigatingRef,    \* ScanScreen (part_011): navigatingRef.current
  navTimers,        \* ScanScreen (part_011): the pending setTimeout(navigate, 180) calls
  productBarcode,   \* ProductScreen: route.params.barcode, None while the screen is not mounted
  product,          \* ProductScreen: useState product, None before the first load
  productLoading,   \* ProductScreen: useState loading
  productRuns,      \* ProductScreen: the runs of the load effect that wait for a response
  productIssued,    \* number of runs the load effect has started
  clock,            \* Date.now(), in ms
  scheduled,        \* observer: the last scan ScanScreen accepted, whether the screen gained focus
                    \* after it, and the navigations scheduled since the screen gained focus
  call,             \* the last application of a pure function: its name, argument and result
  burst,            \* observer: the last three changes of eKey to a runnable set, and the requests since
  last              \* history: the operation that ran last, and whether it found what it looks for

checkVars == <<items, loading, resp, err, timer, inflight, issued, events, sheet>>

insightsVars == <<routineItems, insightsLoading, report, insightsRequest>>

whatIfVars == <<whatIfItems, excluded>>

\* The scan-history store and the scan screen (part_002, part_011, ScanScreen.tsx)
scanScreenVars == <<scanFocused, scanMode, sheetBarcode, lastScanRef, navigatingRef, navTimers>>

scanVars == <<history, scanScreenVars>>

\* The product screen (part_016)
productVars == <<productBarcode, product, productLoading, productRuns, productIssued>>

otherScreens == <<scanVars, productVars>>

screenVars == <<mounted, checkVars, insightsVars, whatIfVars, otherScreens>>

\* The observers and the wall clock, which no handler of the program writes.
aux == <<call, burst, clock, scheduled>>

vars == <<routine, mounted, checkVars, insightsVars, whatIfVars, otherScreens, aux, last>>

(***************************************************************************)
(* store/routineStore.ts: operations                                       *)
(***************************************************************************)

\* "Unknown product", the default name
UnknownProduct == <<"U", "n", "k", "n", "o", "w", "n", " ", "p", "r", "o", "d", "u", "c", "t">>

\* getRoutineItems(): a copy, enabled defaulted to true
getRoutineItems(r) == [i \in 1..Len(r) |-> [r[i] EXCEPT !.enabled = (r[i].enabled # FALSE)]]

\* The item upsertRoutineItem builds from its input, the previous item
\* (hasPrev says whether there is one) and the current time.
NextItem(input, hasPrev, prev, now) ==
  LET barcode == safeStr(input.barcode, <<>>)
      id == safeStr(input.id, IF barcode # <<>> THEN barcode ELSE <<"i", "d", "_">> \o NumStr(now))
      additives_raw ==
        IF IsSome(input.additives_raw)
        THEN uniq([i \in 1..Len(Val(input.additives_raw)) |->
                     normalizeENumberToken(Val(input.additives_raw)[i])])
        ELSE IF hasPrev THEN prev.additives_raw ELSE <<>>
      e_numbers ==
        IF IsSome(input.e_numbers)
        THEN uniq([i \in 1..Len(Val(input.e_numbers)) |->
                     trim(toUpperCase(StringOf(Val(input.e_numbers)[i])))])
        ELSE IF Len(additives_raw) > 0 THEN deriveENumbersFromRaw(additives_raw)
        ELSE IF hasPrev THEN prev.e_numbers ELSE <<>>
      allergens_raw ==
        IF IsSome(input.allergens_raw)
        THEN uniq([i \in 1..Len(Val(input.allergens_raw)) |->
                     toLowerCase(trim(StringOf(Val(input.allergens_raw)[i])))])
        ELSE IF hasPrev THEN prev.allergens_raw ELSE <<>>
      badges ==
        [eco |-> OrElse(input.badges.eco, IF hasPrev THEN prev.badges.eco ELSE "-"),
         allergensCount |->
           OrElse(input.badges.allergensCount,
                  IF hasPrev THEN prev.badges.allergensCount ELSE Len(allergens_raw)),
         additivesCount |->
           OrElse(input.badges.additivesCount,
                  IF hasPrev THEN prev.badges.additivesCount ELSE Len(e_numbers))]
      enabled ==
        IF IsSome(input.enabled) THEN Val(input.enabled)
        ELSE IF hasPrev THEN prev.enabled # FALSE ELSE TRUE
  IN [id |-> id,
      barcode |-> IF barcode # <<>> THEN barcode ELSE IF hasPrev THEN prev.barcode ELSE <<>>,
      name |-> safeStr(input.name, IF hasPrev THEN prev.name ELSE UnknownProduct),
      enabled |-> enabled,
      additives_raw |-> additives_raw,
      e_numbers |-> e_numbers,
      allergens_raw |-> allergens_raw,
      addedAtISO |-> IF hasPrev THEN prev.addedAtISO ELSE now,
      frequency |-> OrElse(input.frequency, IF hasPrev THEN prev.frequency ELSE "Daily"),
      badges |-> badges]

\* Mutant of UpsertIndex: the item is looked up by id alone.
UpsertIndex_ById(r, input, now) ==
  LET barcode == safeStr(input.barcode, <<>>)
      id == safeStr(input.id, IF barcode # <<>> THEN barcode ELSE <<"i", "d", "_">> \o NumStr(now))
  IN FindIndex([i \in 1..Len(r) |-> r[i].id = id])

\* The index upsertRoutineItem updates: by barcode when the input has one, else by id.
UpsertIndex(r, input, now) ==
  LET barcode == safeStr(input.barcode, <<>>)
      id == safeStr(input.id, IF barcode # <<>> THEN barcode ELSE <<"i", "d", "_">> \o NumStr(now))
  IN FindIndex([i \in 1..Len(r) |->
                   IF barcode # <<>> THEN r[i].barcode = barcode ELSE r[i].id = id])

\* Mutant of Upserted: a new item is pushed at the end.
Upserted_Push(r, input, now) ==
  LET idx == UpsertIndex(r, input, now)
  IN IF idx > 0
     THEN [r EXCEPT ![idx] = NextItem(input, TRUE, r[idx], now)]
     ELSE r \o <<NextItem(input, FALSE, <<>>, now)>>

\* The collection after upsertRoutineItem(input) at time now.
Upserted(r, input, now) ==
  LET idx == UpsertIndex(r, input, now)
  IN IF idx > 0
     THEN [r EXCEPT ![idx] = NextItem(input, TRUE, r[idx], now)]
     ELSE <<NextItem(input, FALSE, <<>>, now)>> \o r

MatchesId(x, id) == x.id = id \/ x.barcode = id

\* Mutant of FrequencySet: every item gets the frequency.
FrequencySet_All(r, id, frequency) ==
  LET idx == FindIndex([i \in 1..Len(r) |-> MatchesId(r[i], id)])
  IN IF idx > 0 THEN [i \in 1..Len(r) |-> [r[i] EXCEPT !.frequency = frequency]] ELSE r

FrequencySet(r, id, frequency) ==
  LET idx == FindIndex([i \in 1..Len(r) |-> MatchesId(r[i], id)])
  IN IF idx > 0 THEN [r EXCEPT ![idx].frequency = frequency] ELSE r

EnabledSet(r, id, enabled) ==
  LET idx == FindIndex([i \in 1..Len(r) |-> MatchesId(r[i], id)])
  IN IF idx > 0 THEN [r EXCEPT ![idx].enabled = enabled] ELSE r

\* Mutant of EnabledToggled: the matched item is switched off.
EnabledToggled_Off(r, id) ==
  LET idx == FindIndex([i \in 1..Len(r) |-> MatchesId(r[i], id)])
  IN IF idx > 0 THEN [r EXCEPT ![idx].enabled = FALSE] ELSE r

EnabledToggled(r, id) ==
  LET idx == FindIndex([i \in 1..Len(r) |-> MatchesId(r[i], id)])
  IN IF idx > 0 THEN [r EXCEPT ![idx].enabled = ~(r[idx].enabled # FALSE)] ELSE r

Removed(r, id) == SelectSeq(r, LAMBDA x : x.id # id /\ x.barcode # id)

(***************************************************************************)
(* Inputs of the store operations                                          *)
(***************************************************************************)
E330 == <<"E", "3", "3", "0">>

E322 == <<"E", "3", "2", "2">>

E322I == <<"E", "3", "2", "2", "I">>

E102 == <<"E", "1", "0", "2">>

\* "e 102", "e322i", "330", "E-102", "12" and "EGG" as they arrive from a product record
Tok_e_102 == <<"e", " ", "1", "0", "2">>

Tok_e322i == <<"e", "3", "2", "2", "i">>

Tok_330 == <<"3", "3", "0">>

Tok_E_102 == <<"E", "-", "1", "0", "2">>

Tok_12 == <<"1", "2">>

Tok_EGG == <<"E", "G", "G">>

Bar7 == <<"7">>

Bar8 == <<"8">>

\* An input with every field absent.
NoBadges == [eco |-> None, allergensCount |-> None, additivesCount |-> None]

EmptyInput ==
  [barcode |-> None, id |-> None, name |-> None, additives_raw |-> None,
   e_numbers |-> None, allergens_raw |-> None, enabled |-> None,
   frequency |-> None, badges |-> NoBadges]

\* How an input names the item: by barcode, by id, by both, or by neither.
Identities ==
  { [barcode |-> Some(Bar7), id |-> None],
    [barcode |-> Some(Bar8), id |-> None],
    [barcode |-> Some(<<" ", "7">>), id |-> None],
    [barcode |-> Some(Bar7), id |-> Some(<<"x">>)],
    [barcode |-> Some(Bar8), id |-> Some(Bar7)],
    [barcode |-> None, id |-> Some(<<"x">>)],
    [barcode |-> None, id |-> None] }

\* What an input carries besides the identity.
Payloads ==
  { [additives_raw |-> None, e_numbers |-> None, allergens_raw |-> None,
     enabled |-> None, frequency |-> None, badges |-> NoBadges],
    [additives_raw |-> Some(<<E330>>), e_numbers |-> None, allergens_raw |-> None,
     enabled |-> None, frequency |-> None, badges |-> NoBadges],
    [additives_raw |-> Some(<<E322I, Tok_e_102, NullTok, Tok_EGG>>), e_numbers |-> None,
     allergens_raw |-> None, enabled |-> None, frequency |-> None, badges |-> NoBadges],
    [additives_raw |-> Some(<<>>), e_numbers |-> None, allergens_raw |-> Some(<<>>),
     enabled |-> None, frequency |-> None, badges |-> NoBadges],
    [additives_raw |-> None, e_numbers |-> Some(<<Tok_e322i, E330>>),
     allergens_raw |-> Some(<<<<" ", "E", "G", "G">>, NullTok>>),
     enabled |-> None, frequency |-> None, badges |-> NoBadges],
    [additives_raw |-> Some(<<E330>>), e_numbers |-> Some(<<E330>>),
     allergens_raw |-> Some(<<>>), enabled |-> None, frequency |-> None,
     badges |-> [eco |-> None, allergensCount |-> Some(0), additivesCount |-> Some(1)]],
    [additives_raw |-> None, e_numbers |-> None, allergens_raw |-> None,
     enabled |-> Some(FALSE), frequency |-> Some("Weekly"), badges |-> NoBadges] }

WithIdentity(i, p) ==
  [EmptyInput EXCEPT !.barcode = i.barcode, !.id = i.id,
                     !.additives_raw = p.additives_raw, !.e_numbers = p.e_numbers,
                     !.allergens_raw = p.allergens_raw, !.enabled = p.enabled,
                     !.frequency = p.frequency, !.badges = p.badges]

\* Inputs that vary what is stored: every payload for one barcode, and the
\* payload of one raw additive list for a second one.
UpsertInputs ==
  { WithIdentity([barcode |-> Some(Bar7), id |-> None], p) : p \in Payloads }
  \cup
  { WithIdentity([barcode |-> Some(Bar8), id |-> None], p) :
      p \in {q \in Payloads : q.additives_raw = Some(<<E330>>) /\ ~IsSome(q.e_numbers)} }

\* Inputs that vary how the item is named.
IdentityInputs ==
  { WithIdentity(i, p) :
      i \in Identities,
      p \in {[additives_raw |-> None, e_numbers |-> None, allergens_raw |-> None,
              enabled |-> None, frequency |-> None, badges |-> NoBadges]} }

\* The ids the id-addressed operations are called with.
IdArgs == {Bar7, Bar8, <<"x">>}

Frequencies == {"Daily", "Weekly", "Rare"}

\* Bounds of the model.
MaxItems == 2

MaxClock == 1
(***************************************************************************)
(* Actions of the routine store.  Date.now() is read once per call; the    *)
(* wall clock is an input of the call (it need not advance, and it can be  *)
(* set back between two calls).                                            *)
(***************************************************************************)

\* History of the last call: its name and whether it matched what it looks for.
Did(op, hit) == last' = [op |-> op, hit |-> hit]

HasItem(id) == \E i \in 1..Len(routine) : MatchesId(routine[i], id)

upsertRoutineItem(input, now) ==
  /\ Len(Upserted(routine, input, now)) <= MaxItems
  /\ routine' = Upserted(routine, input, now)
  /\ Did("upsertRoutineItem", UpsertIndex(routine, input, now) > 0)
  /\ UNCHANGED screenVars

setRoutineFrequency(id, frequency) ==
  /\ routine' = FrequencySet(routine, id, frequency)
  /\ Did("setRoutineFrequency", HasItem(id))
  /\ UNCHANGED screenVars

setRoutineItemEnabled(id, enabled) ==
  /\ routine' = EnabledSet(routine, id, enabled)
  /\ Did("setRoutineItemEnabled", HasItem(id))
  /\ UNCHANGED screenVars

toggleRoutineItemEnabled(id) ==
  /\ routine' = EnabledToggled(routine, id)
  /\ Did("toggleRoutineItemEnabled", HasItem(id))
  /\ UNCHANGED screenVars

removeRoutineItem(id) ==
  /\ routine' = Removed(routine, id)
  /\ Did("removeRoutineItem", HasItem(id))
  /\ UNCHANGED screenVars

clearRoutine ==
  /\ routine' = <<>>
  /\ Did("clearRoutine", Len(routine) > 0)
  /\ UNCHANGED screenVars

(***************************************************************************)
(* lib/api.ts and the interaction scoring service                          *)
(***************************************************************************)

\* The ways postJson rejects: fetch throws, res.ok is false, res.json() throws.
Rejections == {"Network request failed", "HTTP 500", "JSON Parse error"}

\* The scoring service, as a stub that echoes its input: the reports it may
\* answer a request with (matches is the length of the matches array; an
\* optional summary value is None when the response lacks it).
Reports(codes) ==
  { [inputs |-> codes, matches |-> 0,
     summary |-> [score |-> Some(100), grade |-> Some("A"), matches |-> Some(0)]],
    [inputs |-> codes, matches |-> 1,
     summary |-> [score |-> None, grade |-> None, matches |-> None]] }

(***************************************************************************)
(* store/historyStore.ts                                                   *)
(***************************************************************************)
MAX_EVENTS == 300

\* Mutant of logHistoryEvent: the list is never cut.
logHistoryEvent_NoLimit(evs, ev) == <<ev>> \o evs

\* logHistoryEvent: unshift, then keep the first MAX_EVENTS
logHistoryEvent(evs, ev) ==
  LET grown == <<ev>> \o evs
  IN IF Len(grown) > MAX_EVENTS THEN Take(grown, MAX_EVENTS) ELSE grown

\* logRoutineCheckEvent: the payload of the routine_check event
RoutineCheckEvent(input) ==
  [type |-> "routine_check",
   payload |-> [score |-> input.score, grade |-> input.grade, e_numbers |-> input.e_numbers,
                matchesCount |-> input.matchesCount,
                uniqueAdditives |-> Len(input.e_numbers)]]

(***************************************************************************)
(* screens/InteractionCheckScreen.tsx: the component                       *)
(***************************************************************************)
DebounceMs == 350

MaxRequests == 2

eNumbers == extractENumbers(items)

eKey == Join(eNumbers)

\* Mutant of CanRun: one code is enough.
CanRun_OneCode(codes) == Len(codes) >= 1

\* canRun of the render whose eNumbers is codes.
CanRun(codes) == Len(codes) >= 2

canRun == CanRun(eNumbers)

\* The state summaryLine shows for loading l, resp r, err e and eNumbers codes.
CheckState(l, r, e, codes) ==
  IF l THEN "Loading"
  ELSE IF e # "" THEN "Error"
  ELSE IF CanRun(codes) /\ r # None THEN "Success"
  ELSE "Idle"

\* Mutant of AutoRunEffect: the timer is set with no delay.
AutoRunEffect_NoDelay(codes, oldResp) ==
  IF ~CanRun(codes) THEN [timer |-> None, resp |-> None]
  ELSE [timer |-> Some([e_numbers |-> codes, left |-> 0]), resp |-> oldResp]

\* The auto-run effect after a render in which eKey changed, for the new
\* eNumbers: the cleanup has cleared the old timer; the state it leaves in
\* timer and resp.
AutoRunEffect(codes, oldResp) ==
  IF ~CanRun(codes) THEN [timer |-> None, resp |-> None]
  ELSE [timer |-> Some([e_numbers |-> codes, left |-> DebounceMs]), resp |-> oldResp]

\* loadRoutine (on mount, on focus and on Refresh), the render that follows
\* setItems and the effects of that render, which run before any other
\* callback.
loadRoutine ==
  LET v == getRoutineItems(routine)
      codes == extractENumbers(v)
      changed == Join(codes) # eKey
      eff == AutoRunEffect(codes, resp)
  IN /\ mounted \in {"none", "InteractionCheck"}
     /\ mounted' = "InteractionCheck"
     /\ items' = v
     /\ timer' = IF changed THEN eff.timer ELSE timer
     /\ resp' = IF changed THEN eff.resp ELSE resp
     /\ Did("loadRoutine", changed)
     /\ UNCHANGED <<routine, loading, err, inflight, issued, events, insightsVars, whatIfVars, otherScreens, sheet>>

\* d milliseconds pass while the debounce timer is pending.
Tick(d) ==
  /\ IsSome(timer)
  /\ Val(timer).left > 0
  /\ timer' = Some([Val(timer) EXCEPT !.left = IF @ > d THEN @ - d ELSE 0])
  /\ UNCHANGED <<routine, mounted, items, loading, resp, err, inflight, issued, events,
                 insightsVars, whatIfVars, otherScreens, sheet, last>>

\* The timer fires and calls the runCheck of the render that set it, up to
\* the await of postJson.
runCheck ==
  /\ IsSome(timer)
  /\ Val(timer).left = 0
  /\ timer' = None
  /\ IF ~CanRun(Val(timer).e_numbers)
     THEN /\ resp' = None
          /\ err' = ""
          /\ UNCHANGED <<loading, inflight, issued>>
     ELSE /\ issued < MaxRequests
          /\ loading' = TRUE
          /\ err' = ""
          /\ inflight' = inflight \cup {[rid |-> issued + 1, e_numbers |-> Val(timer).e_numbers]}
          /\ issued' = issued + 1
          /\ UNCHANGED resp
  /\ Did("runCheck", CanRun(Val(timer).e_numbers))
  /\ UNCHANGED <<routine, mounted, items, events, insightsVars, whatIfVars, otherScreens, sheet>>

\* What runCheck leaves in resp, err and loading when postJson resolved with r.
AfterResolve(r, oldErr) == [resp |-> Some(r), err |-> oldErr, loading |-> FALSE]

\* Mutant of AfterReject: the report held before is kept.
AfterReject_KeepsReport(msg) == [resp |-> resp, err |-> msg, loading |-> FALSE]

\* What runCheck leaves in resp, err and loading when postJson rejected with msg.
AfterReject(msg) == [resp |-> None, err |-> msg, loading |-> FALSE]

\* postJson resolves for request q with report r: the rest of runCheck.
Resolve(q, r) ==
  /\ q \in inflight
  /\ inflight' = inflight \ {q}
  /\ events' = logHistoryEvent(events,
                 RoutineCheckEvent([e_numbers |-> q.e_numbers, matchesCount |-> r.matches,
                                    score |-> None, grade |-> None]))
  /\ resp' = AfterResolve(r, err).resp
  /\ err' = AfterResolve(r, err).err
  /\ loading' = AfterResolve(r, err).loading
  /\ Did("resolve", TRUE)
  /\ UNCHANGED <<routine, mounted, items, timer, issued, insightsVars, whatIfVars, otherScreens, sheet>>

\* postJson rejects for request q with message msg: the rest of runCheck.
Reject(q, msg) ==
  /\ q \in inflight
  /\ inflight' = inflight \ {q}
  /\ resp' = AfterReject(msg).resp
  /\ err' = AfterReject(msg).err
  /\ loading' = AfterReject(msg).loading
  /\ Did("reject", TRUE)
  /\ UNCHANGED <<routine, mounted, items, timer, issued, events, insightsVars, whatIfVars, otherScreens, sheet>>

(***************************************************************************)
(* screens/InsightsScreen.tsx: the component                               *)
(***************************************************************************)

\* The navigator mounts InsightsScreen: useState(() => getRoutineItems()).
openInsights ==
  /\ mounted = "none"
  /\ mounted' = "Insights"
  /\ routineItems' = getRoutineItems(routine)
  /\ Did("openInsights", TRUE)
  /\ UNCHANGED <<routine, checkVars, insightsLoading, report, insightsRequest, whatIfVars, otherScreens>>

\* Whether refresh, having extracted nums, goes on to call postJson.
RefreshPosts(nums) == ~(Len(nums) < 2)

\* The Refresh button (disabled while loading) calls refresh, up to the await
\* of postJson, or to the end when there are fewer than two codes.
refresh ==
  LET its == getRoutineItems(routine)
      nums == extractRoutineENumbers(its)
  IN /\ mounted = "Insights"
     /\ ~insightsLoading
     /\ routineItems' = its
     /\ IF ~RefreshPosts(nums)
        THEN /\ report' = None
             /\ insightsLoading' = FALSE
             /\ UNCHANGED insightsRequest
        ELSE /\ insightsLoading' = TRUE
             /\ insightsRequest' = Some([e_numbers |-> nums])
             /\ UNCHANGED report
     /\ Did("refresh", RefreshPosts(nums))
     /\ UNCHANGED <<routine, mounted, checkVars, whatIfVars, otherScreens>>

\* What refresh leaves in report and loading when postJson rejected with msg.
AfterRefreshReject(msg) ==
  [report |-> Some([error |-> TRUE, message |-> msg]), loading |-> FALSE]

\* postJson resolves with report r: the rest of refresh.
refreshResolve(r) ==
  /\ IsSome(insightsRequest)
  /\ insightsRequest' = None
  /\ report' = Some(r)
  /\ insightsLoading' = FALSE
  /\ Did("refreshResolve", TRUE)
  /\ UNCHANGED <<routine, mounted, checkVars, routineItems, whatIfVars, otherScreens>>

\* postJson rejects with message msg: the rest of refresh.
refreshReject(msg) ==
  /\ IsSome(insightsRequest)
  /\ insightsRequest' = None
  /\ report' = AfterRefreshReject(msg).report
  /\ insightsLoading' = AfterRefreshReject(msg).loading
  /\ Did("refreshReject", TRUE)
  /\ UNCHANGED <<routine, mounted, checkVars, routineItems, whatIfVars, otherScreens>>

(***************************************************************************)
(* Observer of the auto-run effect: the window of the last (at most three) *)
(* consecutive changes of eKey that left canRun true.  n is the number of  *)
(* changes in the window, gaps[1] the time between the last change and the *)
(* one before, gaps[2] the time between that one and its predecessor,      *)
(* quiet the time since the last change, reqs[k] the number of requests    *)
(* issued since the k-th last change, sent the codes of the last request.  *)
(* quiet stops counting at DebounceMs, and what the window does not hold   *)
(* yet reads 0.                                                            *)
(***************************************************************************)
NoBurst == [n |-> 0, gaps |-> <<0, 0>>, quiet |-> 0, reqs |-> <<0, 0, 0>>, sent |-> <<>>]

Min(a, b) == IF a < b THEN a ELSE b

\* loadRoutine is observed: a change of eKey enters the window, or empties
\* it when it leaves canRun false.
ObserveLoad ==
  LET codes == extractENumbers(items')
  IN burst' =
       IF Join(codes) = eKey THEN burst
       ELSE IF ~CanRun(codes) THEN NoBurst
       ELSE [n |-> Min(burst.n + 1, 3),
             gaps |-> <<IF burst.n >= 1 THEN burst.quiet ELSE 0,
                        IF burst.n >= 2 THEN burst.gaps[1] ELSE 0>>,
             quiet |-> 0,
             reqs |-> <<0, burst.reqs[1], burst.reqs[2]>>,
             sent |-> burst.sent]

\* d milliseconds are observed to pass.
ObserveTick(d) ==
  burst' = IF burst.n = 0 THEN burst ELSE [burst EXCEPT !.quiet = Min(@ + d, DebounceMs)]

\* runCheck is observed: a request it issues is counted for every change in
\* the window.
ObserveRun ==
  burst' =
    IF issued' = issued \/ burst.n = 0 THEN burst
    ELSE [burst EXCEPT !.reqs = [k \in 1..3 |-> IF k <= burst.n THEN @[k] + 1 ELSE 0],
                       !.sent = Val(timer).e_numbers]

(***************************************************************************)
(* The extractors applied to product records                               *)
(***************************************************************************)

\* The sequences without repetition over a set of tokens.
RECURSIVE Arrangements(_)
Arrangements(toks) ==
  {<<>>} \cup UNION {{<<t>> \o rest : rest \in Arrangements(toks \ {t})} : t \in toks}

\* Product records that list their additives in the additives field.
ExtractItems == {[additives |-> a] : a \in Arrangements({Tok_e322i, Tok_330, E322})}

\* The collections of at most MaxItems such records.
ExtractInputs == UNION {[1..n -> ExtractItems] : n \in 1..MaxItems}

NoCall == [fn |-> "none", arg |-> <<>>, ret |-> <<>>]

\* extractENumbers(its) is called.
callExtractENumbers(its) ==
  /\ call = NoCall
  /\ call' = [fn |-> "extractENumbers", arg |-> its, ret |-> extractENumbers(its)]
  /\ UNCHANGED <<routine, screenVars, burst, clock, scheduled, last>>

\* extractRoutineENumbers(its) is called.
callExtractRoutineENumbers(its) ==
  /\ call = NoCall
  /\ call' = [fn |-> "extractRoutineENumbers", arg |-> its,
              ret |-> extractRoutineENumbers(its)]
  /\ UNCHANGED <<routine, screenVars, burst, clock, scheduled, last>>

(***************************************************************************)
(* Specifications                                                          *)
(***************************************************************************)

\* The empty store, no screen mounted yet, the component states as their
\* useState initialisers give them.
Init ==
  /\ routine = <<>>
  /\ mounted = "none"
  /\ items = <<>>
  /\ loading = FALSE
  /\ resp = None
  /\ err = ""
  /\ timer = None
  /\ inflight = {}
  /\ issued = 0
  /\ events = <<>>
  /\ routineItems = <<>>
  /\ insightsLoading = FALSE
  /\ report = None
  /\ insightsRequest = None
  /\ sheet = None
  /\ whatIfItems = <<>>
  /\ excluded = <<>>
  /\ history = <<>>
  /\ scanFocused = FALSE
  /\ scanMode = "scanner"
  /\ sheetBarcode = None
  /\ lastScanRef = [code |-> <<>>, at |-> 0]
  /\ navigatingRef = FALSE
  /\ navTimers = {}
  /\ productBarcode = None
  /\ product = None
  /\ productLoading = FALSE
  /\ productRuns = {}
  /\ productIssued = 0
  /\ clock = 0
  /\ scheduled = [n |-> 0, code |-> <<>>, at |-> 0, refocused |-> FALSE]
  /\ call = NoCall
  /\ burst = NoBurst
  /\ last = [op |-> "init", hit |-> FALSE]

\* The store with inputs that vary what is stored; the clock stands still.
StoreNext ==
  \/ (\E input \in UpsertInputs : upsertRoutineItem(input, 0)) /\ UNCHANGED aux
  \/ (\E id \in IdArgs, f \in Frequencies : setRoutineFrequency(id, f)) /\ UNCHANGED aux
  \/ (\E id \in IdArgs, e \in BOOLEAN : setRoutineItemEnabled(id, e)) /\ UNCHANGED aux
  \/ (\E id \in IdArgs : toggleRoutineItemEnabled(id)) /\ UNCHANGED aux
  \/ (\E id \in IdArgs : removeRoutineItem(id)) /\ UNCHANGED aux
  \/ clearRoutine /\ UNCHANGED aux

Spec == Init /\ [][StoreNext]_vars

\* The store with inputs that vary how an item is named, at varying times.
IdentityNext ==
  \/ (\E input \in IdentityInputs, now \in 0..MaxClock : upsertRoutineItem(input, now))
       /\ UNCHANGED aux
  \/ (\E id \in IdArgs, f \in Frequencies : setRoutineFrequency(id, f)) /\ UNCHANGED aux
  \/ (\E id \in IdArgs, e \in BOOLEAN : setRoutineItemEnabled(id, e)) /\ UNCHANGED aux
  \/ (\E id \in IdArgs : toggleRoutineItemEnabled(id)) /\ UNCHANGED aux
  \/ (\E id \in IdArgs : removeRoutineItem(id)) /\ UNCHANGED aux
  \/ clearRoutine /\ UNCHANGED aux

SpecIdentity == Init /\ [][IdentityNext]_vars

\* The two products the check scenarios put in the routine.
CheckInputs ==
  { [EmptyInput EXCEPT !.barcode = Some(Bar7), !.additives_raw = Some(<<E330>>)],
    [EmptyInput EXCEPT !.barcode = Some(Bar8), !.additives_raw = Some(<<E322I, Tok_e_102>>)] }

\* The interaction check screen over a routine of two products; the debounce
\* delay passes in one step.
CheckNext ==
  \/ (\E input \in CheckInputs : upsertRoutineItem(input, 0)) /\ UNCHANGED aux
  \/ (\E id \in {Bar8} : removeRoutineItem(id)) /\ UNCHANGED aux
  \/ loadRoutine /\ UNCHANGED aux
  \/ Tick(DebounceMs) /\ UNCHANGED aux
  \/ runCheck /\ UNCHANGED aux
  \/ (\E q \in inflight : \E r \in Reports(q.e_numbers) : Resolve(q, r)) /\ UNCHANGED aux
  \/ (\E q \in inflight : \E msg \in Rejections : Reject(q, msg)) /\ UNCHANGED aux

SpecCheck == Init /\ [][CheckNext]_vars

\* Either screen over the same routine: the navigator mounts the one the
\* user opens.
GateNext ==
  \/ CheckNext
  \/ openInsights /\ UNCHANGED aux
  \/ refresh /\ UNCHANGED aux
  \/ (IsSome(insightsRequest)
        /\ \E r \in Reports(Val(insightsRequest).e_numbers) : refreshResolve(r))
       /\ UNCHANGED aux
  \/ (\E msg \in Rejections : refreshReject(msg)) /\ UNCHANGED aux

SpecGate == Init /\ [][GateNext]_vars

\* Time in steps of TickMs, with the changes of eKey and the requests observed.
TickMs == 175

DebounceNext ==
  \/ (\E input \in CheckInputs : upsertRoutineItem(input, 0)) /\ UNCHANGED aux
  \/ (\E id \in {Bar7} : removeRoutineItem(id)) /\ UNCHANGED aux
  \/ loadRoutine /\ ObserveLoad /\ UNCHANGED <<call, clock, scheduled>>
  \/ Tick(TickMs) /\ ObserveTick(TickMs) /\ UNCHANGED <<call, clock, scheduled>>
  \/ runCheck /\ ObserveRun /\ UNCHANGED <<call, clock, scheduled>>
  \/ (\E q \in inflight : \E r \in {x \in Reports(q.e_numbers) : x.matches = 0} : Resolve(q, r))
       /\ UNCHANGED aux

SpecDebounce == Init /\ [][DebounceNext]_vars

\* The extractors applied to collections of product records.
ExtractNext ==
  \/ \E its \in ExtractInputs : callExtractENumbers(its)
  \/ \E its \in ExtractInputs : callExtractRoutineENumbers(its)

SpecExtract == Init /\ [][ExtractNext]_vars

(***************************************************************************)
(* Claims about the routine store                                          *)
(***************************************************************************)

\* C1: after any sequence of store calls no two items share a non-empty
\* barcode, and upserting an input whose (trimmed) barcode is the barcode of
\* a stored item leaves the length of the collection unchanged.
C1_BarcodeUnique ==
  /\ \A i, j \in 1..Len(routine) :
       (i # j /\ routine[i].barcode # <<>>) => routine[i].barcode # routine[j].barcode
  /\ \A input \in IdentityInputs, now \in 0..MaxClock :
       (\E i \in 1..Len(routine) :
          /\ safeStr(input.barcode, <<>>) # <<>>
          /\ routine[i].barcode = safeStr(input.barcode, <<>>))
       => Len(Upserted(routine, input, now)) = Len(routine)

\* Two items with barcodes are stored and the last call was an upsert that
\* found its item.
C1_Witness ==
  /\ last = [op |-> "upsertRoutineItem", hit |-> TRUE]
  /\ Len(routine) = 2
  /\ \A i \in 1..Len(routine) : routine[i].barcode # <<>>

\* C2: every stored item's badge counts equal the sizes of its stored
\* e_numbers and allergens_raw lists.
C2_BadgesConsistent ==
  \A i \in 1..Len(routine) :
    /\ routine[i].badges.additivesCount = Len(routine[i].e_numbers)
    /\ routine[i].badges.allergensCount = Len(routine[i].allergens_raw)

(***************************************************************************)
(* Claims about the interaction check                                      *)
(***************************************************************************)

\* C3: once nothing is pending (no request in flight, no timer) and the
\* current additive set can run, a held report is the report of the current
\* additive set: the response of a request issued for an earlier set has
\* been discarded.
C3_LastSubmittedWins ==
  (inflight = {} /\ timer = None /\ canRun /\ IsSome(resp)) => Val(resp).inputs = eNumbers

\* C4: canRun holds exactly when the additive set has at least two codes,
\* every request either screen has in flight carries at least two codes, and
\* a request is issued only from a state in which the screen can run.
C4_NoRequestUnlessCanRun ==
  /\ canRun <=> Cardinality(ToSet(eNumbers)) >= 2
  /\ \A q \in inflight : Cardinality(ToSet(q.e_numbers)) >= 2
  /\ (last.op = "runCheck" /\ last.hit) => canRun
  /\ IsSome(insightsRequest) => Cardinality(ToSet(Val(insightsRequest).e_numbers)) >= 2
  /\ (last.op = "refresh" /\ last.hit) => Len(extractRoutineENumbers(routineItems)) >= 2

\* runCheck has just issued a request while an earlier one is still in flight.
C4_Witness ==
  /\ last = [op |-> "runCheck", hit |-> TRUE]
  /\ Cardinality(inflight) = 2

\* C5: while the additive set has fewer than two codes the screen is idle:
\* no report is held, no error is held and loading is false.
C5_IdleWhenCannotRun == ~canRun => (resp = None /\ err = "" /\ loading = FALSE)

\* C6: Success or Error is entered, or entered anew with another report or
\* message, only from Loading.
C6_Machine ==
  [][LET s == CheckState(loading, resp, err, eNumbers)
         t == CheckState(loading', resp', err', extractENumbers(items'))
     IN (t \in {"Success", "Error"} /\ (s # t \/ resp' # resp \/ err' # err))
          => s = "Loading"]_vars

\* C7: right after a rejection the screen holds the message, holds no report
\* and is not loading (InteractionCheckScreen: err, resp, loading;
\* InsightsScreen: the error object in report, loading).
C7_RejectionIsError ==
  /\ last.op = "reject" =>
       /\ err \in Rejections
       /\ resp = None
       /\ loading = FALSE
       /\ CheckState(loading, resp, err, eNumbers) = "Error"
  /\ last.op = "refreshReject" =>
       /\ IsSome(report)
       /\ Val(report) \in {[error |-> TRUE, message |-> m] : m \in Rejections}
       /\ insightsLoading = FALSE

\* A request was rejected after an earlier one had resolved with a report.
C7_Witness ==
  /\ last.op = "reject"
  /\ Len(events) >= 1
  /\ resp = None

\* C8: when the last three changes of the additive set, each leaving canRun
\* true, lie within 200 ms, at most one request has been issued since the
\* first of them; it was issued after the last of them and carries the
\* current additive set; and it has been issued once the timer is no longer
\* pending.  A pending timer is the one of the last change: it carries the
\* current set and fires DebounceMs after that change.
C8_BurstCollapses ==
  /\ (burst.n = 3 /\ burst.gaps[1] + burst.gaps[2] <= 200) =>
       /\ burst.reqs[3] <= 1
       /\ burst.reqs[3] = 1 => (burst.reqs[1] = 1 /\ burst.sent = eNumbers)
       /\ timer = None => burst.reqs[3] = 1
  /\ IsSome(timer) =>
       /\ Val(timer).e_numbers = eNumbers
       /\ Val(timer).left = DebounceMs - burst.quiet

\* Three changes within 200 ms, not all at the same instant, and the one
\* request they caused.
C8_Witness ==
  /\ burst.n = 3
  /\ burst.gaps[1] + burst.gaps[2] <= 200
  /\ burst.gaps[1] + burst.gaps[2] > 0
  /\ burst.reqs = <<1, 1, 1>>
  /\ timer = None

\* The full and the base form of every stored raw token of every item.
FullAndBaseForms(its) ==
  UNION {UNION {ToSet(expandE(its[i].additives_raw[j])) : j \in 1..Len(its[i].additives_raw)} :
           i \in 1..Len(its)}

\* C9: the request runCheck has just issued carries, as a set, the full and
\* the base form of every raw additive token of the routine's items.
C9_SubmitsFullAndBaseForms ==
  \A q \in inflight :
    (last.op = "runCheck" /\ q.rid = issued) => ToSet(q.e_numbers) = FullAndBaseForms(items)

\* A sequence of strings in strictly ascending lexicographic order.
IsAscending(codes) == \A i \in 1..(Len(codes) - 1) : LexLess(codes[i], codes[i + 1])

\* C10: the array an extractor returns is in ascending lexicographic order
\* without duplicates.
C10_SortedNoDuplicates == call.fn # "none" => IsAscending(call.ret)

(***************************************************************************)
(* Claims about the items the check considers                              *)
(***************************************************************************)

\* The interaction check screen over a routine whose second product is
\* switched off and on.
EnabledNext ==
  \/ (\E input \in CheckInputs : upsertRoutineItem(input, 0)) /\ UNCHANGED aux
  \/ (\E e \in BOOLEAN : setRoutineItemEnabled(Bar8, e)) /\ UNCHANGED aux
  \/ toggleRoutineItemEnabled(Bar8) /\ UNCHANGED aux
  \/ loadRoutine /\ UNCHANGED aux
  \/ Tick(DebounceMs) /\ UNCHANGED aux
  \/ runCheck /\ UNCHANGED aux
  \/ (\E q \in inflight : \E r \in {x \in Reports(q.e_numbers) : x.matches = 0} : Resolve(q, r))
       /\ UNCHANGED aux

SpecEnabled == Init /\ [][EnabledNext]_vars

\* The items of its that are enabled, in their order.
EnabledItems(its) == SelectSeq(its, LAMBDA it : it.enabled)

\* C11: the additive set the screen uses for canRun and for its requests is
\* the set extracted from the enabled items alone.
C11_DisabledItemsExcluded ==
  /\ eNumbers = extractENumbers(EnabledItems(items))
  /\ \A q \in inflight :
       (last.op = "runCheck" /\ q.rid = issued) =>
         q.e_numbers = extractENumbers(EnabledItems(items))

(***************************************************************************)
(* src/unnamed/part_008: the InteractionCheckScreen with what-if toggles   *)
(***************************************************************************)

\* excluded[id], read as a condition: an absent key is undefined, hence falsy
IsExcluded(ex, id) == id \in DOMAIN ex /\ ex[id]

\* Mutant of includedItems: the filter keeps every item.
includedItems_KeepsAll(its, ex) == its

\* includedItems: items.filter((it) => !excluded[it.id])
includedItems(its, ex) == SelectSeq(its, LAMBDA it : ~IsExcluded(ex, it.id))

\* nextFreq
nextFreq(f) == IF f = "Daily" THEN "Weekly" ELSE IF f = "Weekly" THEN "Rare" ELSE "Daily"

\* The component mounts: useState(() => getRoutineItems()), useState({})
openWhatIf ==
  /\ mounted = "none"
  /\ mounted' = "WhatIf"
  /\ whatIfItems' = getRoutineItems(routine)
  /\ excluded' = <<>>
  /\ Did("openWhatIf", Len(routine) > 0)
  /\ UNCHANGED <<routine, checkVars, insightsVars, otherScreens>>

\* The row or the eye pill of the i-th item is pressed:
\* setExcluded((p) => ({ ...p, [it.id]: !p[it.id] }))
toggleExcluded(i) ==
  /\ mounted = "WhatIf"
  /\ i \in 1..Len(whatIfItems)
  /\ LET id == whatIfItems[i].id
     IN /\ excluded' = [k \in DOMAIN excluded \cup {id} |->
                          IF k = id THEN ~IsExcluded(excluded, id) ELSE excluded[k]]
        /\ Did("toggleExcluded", IsExcluded(excluded, id))
  /\ UNCHANGED <<routine, mounted, checkVars, insightsVars, otherScreens, whatIfItems>>

\* "Include all": setExcluded({})
includeAll ==
  /\ mounted = "WhatIf"
  /\ excluded' = <<>>
  /\ Did("includeAll", \E k \in DOMAIN excluded : excluded[k])
  /\ UNCHANGED <<routine, mounted, checkVars, insightsVars, otherScreens, whatIfItems>>

\* "Exclude all": every item's id is set to true
excludeAll ==
  /\ mounted = "WhatIf"
  /\ excluded' = [k \in {whatIfItems[i].id : i \in 1..Len(whatIfItems)} |-> TRUE]
  /\ Did("excludeAll", Len(whatIfItems) > 0)
  /\ UNCHANGED <<routine, mounted, checkVars, insightsVars, otherScreens, whatIfItems>>

\* The frequency pill of the i-th item is pressed:
\* setRoutineFrequency(it.id, nextFreq(it.frequency)); setItems(getRoutineItems())
pressFrequency(i) ==
  /\ mounted = "WhatIf"
  /\ i \in 1..Len(whatIfItems)
  /\ LET it == whatIfItems[i]
         stored == FrequencySet(routine, it.id, nextFreq(it.frequency))
     IN /\ routine' = stored
        /\ whatIfItems' = getRoutineItems(stored)
        /\ Did("pressFrequency", HasItem(it.id))
  /\ UNCHANGED <<mounted, checkVars, insightsVars, otherScreens, excluded>>

\* Two products, and a third input whose id is the first product's barcode.
WhatIfInputs ==
  CheckInputs \cup {[EmptyInput EXCEPT !.barcode = Some(Bar8), !.id = Some(Bar7)]}

WhatIfNext ==
  \/ (\E input \in WhatIfInputs : upsertRoutineItem(input, 0)) /\ UNCHANGED aux
  \/ openWhatIf /\ UNCHANGED aux
  \/ (\E i \in 1..MaxItems : toggleExcluded(i)) /\ UNCHANGED aux
  \/ includeAll /\ UNCHANGED aux
  \/ excludeAll /\ UNCHANGED aux
  \/ (\E i \in 1..MaxItems : pressFrequency(i)) /\ UNCHANGED aux

SpecWhatIf == Init /\ [][WhatIfNext]_vars

\* The positions of the items whose id is not excluded.
KeptIndices(its, ex) == {i \in 1..Len(its) : ~IsExcluded(ex, its[i].id)}

\* C12: the what-if restriction is pure.  The restricted list holds exactly
\* the items whose id is not excluded, in their original order; and the
\* toggle, "Include all" and "Exclude all" change neither the routine store
\* nor the list of items the restriction is computed from.
C12_WhatIfRestrictionPure ==
  /\ [](LET inc == includedItems(whatIfItems, excluded)
            kept == KeptIndices(whatIfItems, excluded)
        IN /\ Len(inc) = Cardinality(kept)
           /\ \A i \in kept : inc[Cardinality({j \in kept : j <= i})] = whatIfItems[i])
  /\ [][last'.op \in {"toggleExcluded", "includeAll", "excludeAll"} =>
          routine' = routine /\ whatIfItems' = whatIfItems]_vars

\* A toggle has excluded the first of two items, and the second is what is left.
C12_Witness ==
  /\ last.op = "toggleExcluded"
  /\ Len(whatIfItems) = 2
  /\ whatIfItems[1].id # whatIfItems[2].id
  /\ IsExcluded(excluded, whatIfItems[1].id)
  /\ includedItems(whatIfItems, excluded) = <<whatIfItems[2]>>

(***************************************************************************)
(* Claims about the operations of the routine store                        *)
(***************************************************************************)

\* The tokens of an optional input list, each as the store normalises it
\* (norm is "raw", "code" or "allergen").
InputTokens(list, norm) ==
  IF ~IsSome(list) THEN {}
  ELSE { IF norm = "raw" THEN normalizeENumberToken(Val(list)[i])
         ELSE IF norm = "code" THEN trim(toUpperCase(StringOf(Val(list)[i])))
         ELSE toLowerCase(trim(StringOf(Val(list)[i]))) : i \in 1..Len(Val(list)) }

\* next is prev merged with input, field by field: the input's value when
\* the input has the field, else prev's value.
MergedFieldByField(prev, input, next) ==
  /\ next.name = prev.name
  /\ next.addedAtISO = prev.addedAtISO
  /\ next.enabled = OrElse(input.enabled, prev.enabled)
  /\ next.frequency = OrElse(input.frequency, prev.frequency)
  /\ next.badges.eco = OrElse(input.badges.eco, prev.badges.eco)
  /\ next.badges.additivesCount = OrElse(input.badges.additivesCount, prev.badges.additivesCount)
  /\ next.badges.allergensCount = OrElse(input.badges.allergensCount, prev.badges.allergensCount)
  /\ IF IsSome(input.additives_raw)
     THEN ToSet(next.additives_raw) = InputTokens(input.additives_raw, "raw") \ {<<>>}
     ELSE next.additives_raw = prev.additives_raw
  /\ IF IsSome(input.allergens_raw)
     THEN ToSet(next.allergens_raw) = InputTokens(input.allergens_raw, "allergen") \ {<<>>}
     ELSE next.allergens_raw = prev.allergens_raw
  /\ IF IsSome(input.e_numbers)
     THEN ToSet(next.e_numbers) = InputTokens(input.e_numbers, "code") \ {<<>>}
     ELSE IsSome(input.additives_raw) \/ next.e_numbers = prev.e_numbers

\* next is what an input with no existing item to merge into gives: the
\* input's value, else the default.
DefaultedFieldByField(input, next) ==
  /\ next.enabled = OrElse(input.enabled, TRUE)
  /\ next.frequency = OrElse(input.frequency, "Daily")
  /\ next.badges.additivesCount = OrElse(input.badges.additivesCount, Len(next.e_numbers))
  /\ next.badges.allergensCount = OrElse(input.badges.allergensCount, Len(next.allergens_raw))

\* C13: an upsert that finds an existing item stores, for each field, the
\* input's value when the input has it and the existing item's value
\* otherwise; an upsert that finds none stores the defaults for the fields
\* the input lacks (frequency Daily, enabled true, the badge counts the
\* lengths of the stored lists).
C13_MergeFieldByField ==
  [][\A input \in UpsertInputs :
       (last'.op = "upsertRoutineItem" /\ routine' = Upserted(routine, input, 0)) =>
         LET idx == UpsertIndex(routine, input, 0)
         IN IF idx > 0
            THEN MergedFieldByField(routine[idx], input, routine'[idx])
            ELSE DefaultedFieldByField(input, routine'[1])]_vars

\* C15: an upsert that finds an existing item and whose input has no
\* additives_raw, no e_numbers and no allergens_raw leaves the item's three
\* stored lists as they were.
C15_ListsKeptWhenNoneSupplied ==
  [][\A input \in UpsertInputs :
       LET idx == UpsertIndex(routine, input, 0)
       IN ( /\ last'.op = "upsertRoutineItem"
            /\ routine' = Upserted(routine, input, 0)
            /\ idx > 0
            /\ ~IsSome(input.additives_raw)
            /\ ~IsSome(input.e_numbers)
            /\ ~IsSome(input.allergens_raw) ) =>
           /\ routine'[idx].additives_raw = routine[idx].additives_raw
           /\ routine'[idx].e_numbers = routine[idx].e_numbers
           /\ routine'[idx].allergens_raw = routine[idx].allergens_raw]_vars

\* C14: an upsert that finds no existing item puts the new item at index 0
\* and moves every other item one place down, in the same order; an upsert
\* that finds one replaces it where it is and leaves every other item as it
\* was.
C14_FrontOrInPlace ==
  [][\A input \in IdentityInputs, now \in 0..MaxClock :
       (last'.op = "upsertRoutineItem" /\ routine' = Upserted(routine, input, now)) =>
         LET idx == UpsertIndex(routine, input, now)
         IN IF idx = 0
            THEN /\ Len(routine') = Len(routine) + 1
                 /\ routine'[1] = NextItem(input, FALSE, <<>>, now)
                 /\ \A i \in 1..Len(routine) : routine'[i + 1] = routine[i]
            ELSE /\ Len(routine') = Len(routine)
                 /\ routine'[idx] = NextItem(input, TRUE, routine[idx], now)
                 /\ \A i \in 1..Len(routine) : i # idx => routine'[i] = routine[i]]_vars

\* A new item has been put in front of the one that was there.
C14_Witness ==
  /\ last = [op |-> "upsertRoutineItem", hit |-> FALSE]
  /\ Len(routine) = 2
  /\ routine[1].addedAtISO > routine[2].addedAtISO

\* C16: setRoutineItemEnabled and toggleRoutineItemEnabled change the enabled
\* flag of one item whose id or barcode is the given id, and nothing else;
\* with an id no item has they change nothing; and a second toggle of the
\* same id gives back the collection the first one started from.
C16_OnlyEnabledChanges ==
  [][\A id \in IdArgs :
       /\ \A e \in BOOLEAN :
            (last'.op = "setRoutineItemEnabled" /\ routine' = EnabledSet(routine, id, e)) =>
              IF HasItem(id)
              THEN \E idx \in 1..Len(routine) :
                     /\ MatchesId(routine[idx], id)
                     /\ routine' = [routine EXCEPT ![idx].enabled = e]
              ELSE routine' = routine
       /\ (last'.op = "toggleRoutineItemEnabled" /\ routine' = EnabledToggled(routine, id)) =>
            /\ IF HasItem(id)
               THEN \E idx \in 1..Len(routine) :
                      /\ MatchesId(routine[idx], id)
                      /\ routine' = [routine EXCEPT ![idx].enabled = ~routine[idx].enabled]
               ELSE routine' = routine
            /\ EnabledToggled(routine', id) = routine]_vars

\* A toggle has found its item; of the two items one is off, and its id is
\* not its barcode, and one is on.
C16_Witness ==
  /\ last = [op |-> "toggleRoutineItemEnabled", hit |-> TRUE]
  /\ Len(routine) = 2
  /\ \E i, j \in 1..2 :
       /\ ~routine[i].enabled
       /\ routine[j].enabled
       /\ routine[i].id # routine[i].barcode

\* C17: setRoutineFrequency changes the frequency of one item whose id or
\* barcode is the given id, and nothing else: the other fields of the item,
\* the other items, the length and the order stay; with an id no item has
\* it changes nothing.
C17_OnlyFrequencyChanges ==
  [][\A id \in IdArgs, f \in Frequencies :
       (last'.op = "setRoutineFrequency" /\ routine' = FrequencySet(routine, id, f)) =>
         IF HasItem(id)
         THEN \E idx \in 1..Len(routine) :
                /\ MatchesId(routine[idx], id)
                /\ routine' = [routine EXCEPT ![idx].frequency = f]
         ELSE routine' = routine]_vars

\* The frequency of one of two items has been set; the other item keeps the
\* default.
C17_Witness ==
  /\ last = [op |-> "setRoutineFrequency", hit |-> TRUE]
  /\ Len(routine) = 2
  /\ \E i, j \in 1..2 : routine[i].frequency = "Rare" /\ routine[j].frequency = "Daily"

(***************************************************************************)
(* screens/RoutineScreen.tsx: the frequency pill                           *)
(***************************************************************************)

\* readItemsSync: getRoutineItems(), the first item of each non-empty barcode
readItemsSync(r) ==
  LET its == getRoutineItems(r)
  IN SelectSeq([i \in 1..Len(its) |-> [it |-> its[i], at |-> i]],
               LAMBDA x : x.it.barcode = <<>> \/
                          \A j \in 1..(x.at - 1) : its[j].barcode # x.it.barcode)

\* String(current).trim().toLowerCase(), on the names of the frequencies
LowerFrequency(current) ==
  CASE current = "Daily" -> "daily"
    [] current = "Weekly" -> "weekly"
    [] current = "Rare" -> "rare"
    [] OTHER -> current

\* cycleFrequency, on strings (the store holds no number)
cycleFrequency(current) ==
  LET c == LowerFrequency(current)
  IN IF c = "daily" THEN "weekly"
     ELSE IF c = "weekly" THEN "monthly"
     ELSE IF c = "monthly" THEN "daily"
     ELSE IF c = "1x/week" THEN "2x/week"
     ELSE IF c = "2x/week" THEN "3x/week"
     ELSE IF c = "3x/week" THEN "daily"
     ELSE "daily"

\* { ...it, frequency: next } as an input of upsertRoutineItem
WithFrequency(it, next) ==
  [barcode |-> Some(it.barcode), id |-> Some(it.id), name |-> Some(it.name),
   additives_raw |-> Some(it.additives_raw), e_numbers |-> Some(it.e_numbers),
   allergens_raw |-> Some(it.allergens_raw), enabled |-> Some(it.enabled),
   frequency |-> Some(next),
   badges |-> [eco |-> Some(it.badges.eco),
               allergensCount |-> Some(it.badges.allergensCount),
               additivesCount |-> Some(it.badges.additivesCount)]]

\* setItemFrequency(it) for the i-th row: routineStore exports none of
\* setRoutineItemFrequency, setItemFrequency, updateFrequency, so the handler
\* re-upserts the item with the next frequency, and refreshes.
setItemFrequency(i) ==
  /\ i \in 1..Len(readItemsSync(routine))
  /\ LET it == readItemsSync(routine)[i].it
     IN routine' = Upserted(routine, WithFrequency(it, cycleFrequency(it.frequency)), 0)
  /\ Did("setItemFrequency", TRUE)
  /\ UNCHANGED screenVars

\* The routine screen's pill, the what-if screen's pill and the store's setter
\* over a routine of two products.
FrequencyNext ==
  \/ (\E input \in CheckInputs : upsertRoutineItem(input, 0)) /\ UNCHANGED aux
  \/ (\E i \in 1..MaxItems : setItemFrequency(i)) /\ UNCHANGED aux
  \/ (\E id \in {Bar7, Bar8}, f \in Frequencies : setRoutineFrequency(id, f)) /\ UNCHANGED aux
  \/ openWhatIf /\ UNCHANGED aux
  \/ (\E i \in 1..MaxItems : pressFrequency(i)) /\ UNCHANGED aux

SpecFrequency == Init /\ [][FrequencyNext]_vars

\* C18: every frequency an item holds in the store is one of Daily, Weekly,
\* Rare; its successor under either pill's next operation is one of them;
\* and three applications of the next operation give the value back.
C18_CyclePeriodic ==
  \A i \in 1..Len(routine) :
    LET f == routine[i].frequency
    IN /\ f \in Frequencies
       /\ nextFreq(f) \in Frequencies
       /\ nextFreq(nextFreq(nextFreq(f))) = f
       /\ cycleFrequency(f) \in Frequencies
       /\ cycleFrequency(cycleFrequency(cycleFrequency(f))) = f

\* E, then three or four digits, then upper-case letters or nothing.
IsAdditiveCode(c) ==
  /\ c # <<>>
  /\ Head(c) = "E"
  /\ DigitRun(Tail(c)) \in {3, 4}
  /\ AllUpperLetters(Drop(Tail(c), DigitRun(Tail(c))))

\* C19: every code the store holds in an item's additives_raw or e_numbers,
\* and every code extractENumbers gives for the stored items, is E followed
\* by three or four digits and upper-case letters or nothing: a token of
\* neither accepted shape has left nothing behind.
C19_OnlyWellFormedCodes ==
  /\ \A i \in 1..Len(routine) :
       \A c \in ToSet(routine[i].additives_raw) \cup ToSet(routine[i].e_numbers) :
         IsAdditiveCode(c)
  /\ \A c \in ToSet(extractENumbers(getRoutineItems(routine))) : IsAdditiveCode(c)

(***************************************************************************)
(* screens/InteractionCheckScreen.tsx: the summary sheet                   *)
(***************************************************************************)

\* The values the body of the summary sheet shows for the report r: Some(v)
\* for a value printed, None for the dash printed in place of a value.
SummaryBody(r) ==
  [matches |-> Some(OrElse(r.summary.matches, 0)),
   score |-> r.summary.score,
   grade |-> r.summary.grade]

\* openSummary: the summary card is pressed (it has the handler only while a
\* report is held)
openSummary ==
  /\ mounted = "InteractionCheck"
  /\ IsSome(resp)
  /\ sheet' = Some(SummaryBody(Val(resp)))
  /\ Did("openSummary", TRUE)
  /\ UNCHANGED <<routine, mounted, items, loading, resp, err, timer, inflight, issued, events,
                 insightsVars, whatIfVars, otherScreens>>

\* onClose of the sheet
closeSheet ==
  /\ IsSome(sheet)
  /\ sheet' = None
  /\ Did("closeSheet", TRUE)
  /\ UNCHANGED <<routine, mounted, items, loading, resp, err, timer, inflight, issued, events,
                 insightsVars, whatIfVars, otherScreens>>

\* The interaction check screen with its summary sheet, over a routine of two
\* products; the service answers with or without the summary values.
SummaryNext ==
  \/ (\E input \in CheckInputs : upsertRoutineItem(input, 0)) /\ UNCHANGED aux
  \/ loadRoutine /\ UNCHANGED aux
  \/ Tick(DebounceMs) /\ UNCHANGED aux
  \/ runCheck /\ UNCHANGED aux
  \/ (\E q \in inflight : \E r \in Reports(q.e_numbers) : Resolve(q, r)) /\ UNCHANGED aux
  \/ openSummary /\ UNCHANGED aux
  \/ closeSheet /\ UNCHANGED aux

SpecSummary == Init /\ [][SummaryNext]_vars

\* C20: a summary score, grade or match count the response lacks is unknown
\* wherever it is carried: in the report the screen holds and in the event
\* logged when the response arrives, and in the summary sheet opened from
\* the held report; no value stands in for it.
C20_AbsentStaysUnknown ==
  [][/\ last'.op = "resolve" =>
          /\ IsSome(resp')
          /\ ~IsSome(Val(resp').summary.score) => ~IsSome(events'[1].payload.score)
          /\ ~IsSome(Val(resp').summary.grade) => ~IsSome(events'[1].payload.grade)
     /\ last'.op = "openSummary" =>
          \A f \in {"score", "grade", "matches"} :
            ~IsSome(Val(resp).summary[f]) => ~IsSome(Val(sheet')[f])]_vars

(***************************************************************************)
(* Further claims about the interaction check                              *)
(***************************************************************************)

\* C23: the loading flag is true whenever a scoring request is in flight.
C23_LoadingWhileInFlight == inflight # {} => loading

(***************************************************************************)
(* Further claims about the routine store                                  *)
(***************************************************************************)

\* C25: no two items of the routine collection have the same id.
C25_IdUnique ==
  \A i, j \in 1..Len(routine) : i # j => routine[i].id # routine[j].id

\* C26: an upsert whose input has a barcode and no id, and that finds an
\* existing item by that barcode, leaves the item's id and its addedAtISO
\* as they were.
C26_UpdateKeepsId ==
  [][\A input \in IdentityInputs, now \in 0..MaxClock :
       LET idx == UpsertIndex(routine, input, now)
       IN ( /\ last'.op = "upsertRoutineItem"
            /\ routine' = Upserted(routine, input, now)
            /\ safeStr(input.barcode, <<>>) # <<>>
            /\ ~IsSome(input.id)
            /\ idx > 0 ) =>
           /\ routine'[idx].id = routine[idx].id
           /\ routine'[idx].addedAtISO = routine[idx].addedAtISO]_vars

(***************************************************************************)
(* screens/RoutineScreen.tsx: the gate of the "Check" button               *)
(***************************************************************************)

\* getAdditivesCount: badges.additivesCount, a number on every stored item
getAdditivesCount(it) == it.badges.additivesCount

\* hasEnoughForCheck: the counts of the items add up to two or more
RECURSIVE hasEnoughForCheck_n(_)
hasEnoughForCheck_n(its) ==
  IF its = <<>> THEN 0 ELSE getAdditivesCount(Head(its)) + hasEnoughForCheck_n(Tail(its))

hasEnoughForCheck(its) == hasEnoughForCheck_n(its) >= 2

\* C27: when hasEnoughForCheck holds for the items the Routine screen read
\* from the store, the additive set the interaction check extracts from the
\* same items has two codes or more (canRun).
C27_GateImpliesCanRun ==
  LET read == readItemsSync(routine)
      its == [i \in 1..Len(read) |-> read[i].it]
  IN hasEnoughForCheck(its) => CanRun(extractENumbers(its))

\* C28: the routine_check event logged when a response arrives holds the
\* score and the grade of the response's summary, the number of matches of
\* the response and the additive set that was submitted.
C28_EventRecordsSummary ==
  [][last'.op = "resolve" =>
       LET r == Val(resp')
           ev == events'[1]
       IN /\ ev.type = "routine_check"
          /\ ev.payload.e_numbers = r.inputs
          /\ ev.payload.matchesCount = r.matches
          /\ ev.payload.score = r.summary.score
          /\ ev.payload.grade = r.summary.grade]_vars

(***************************************************************************)
(* The scan-history store (src/unnamed/part_002)                           *)
(***************************************************************************)
DedupeWindowMs == 10000

HistoryLimit == 300

Abs(n) == IF n < 0 THEN 0 - n ELSE n

\* new Date(x.createdAtISO).getTime(): toISOString keeps the milliseconds, so
\* the stored instant is read back as it was written.
\* The index of the first entry of the barcode written less than 10 s from now.
RecentIdx(h, barcode, now) ==
  FindIndex([i \in 1..Len(h) |->
               h[i].barcode = barcode /\ Abs(h[i].createdAtISO - now) < DedupeWindowMs])

\* Mutant of ScanAdded: the window is never looked at, every call adds.
ScanAdded_NoDedupe(h, e, now) ==
  LET grown == <<[id |-> <<now, e.barcode>>, barcode |-> e.barcode, mode |-> e.mode,
                  createdAtISO |-> now]>> \o h
  IN Take(grown, HistoryLimit)

\* The history after addScanEvent(e) at time now.
ScanAdded(h, e, now) ==
  LET idx == RecentIdx(h, e.barcode, now)
      grown == <<[id |-> <<now, e.barcode>>, barcode |-> e.barcode, mode |-> e.mode,
                  createdAtISO |-> now]>> \o h
  IN IF idx > 0
     THEN [h EXCEPT ![idx] = [@ EXCEPT !.barcode = e.barcode, !.mode = e.mode,
                                       !.createdAtISO = now]]
     ELSE Take(grown, HistoryLimit)

addScanEvent(e) ==
  /\ history' = ScanAdded(history, e, clock)
  /\ Did("addScanEvent", RecentIdx(history, e.barcode, clock) > 0)
  /\ UNCHANGED <<routine, mounted, checkVars, insightsVars, whatIfVars, productVars,
                 scanScreenVars>>

clearScanHistory ==
  /\ history' = <<>>
  /\ Did("clearScanHistory", Len(history) > 0)
  /\ UNCHANGED <<routine, mounted, checkVars, insightsVars, whatIfVars, productVars,
                 scanScreenVars>>

\* Time passes and the program does nothing.
Idle == Did("idle", FALSE) /\ UNCHANGED <<routine, screenVars>>

\* Bounds of the scan-history scenario: the clock advances in steps of
\* ScanStepMs up to MaxScanSteps steps, and the history grows to MaxHistory.
ScanStepMs == 5000

MaxScanSteps == 4

MaxHistory == 3

ScanEvents == {[barcode |-> b, mode |-> m] : b \in {Bar7, Bar8}, m \in {"scanner", "allergy"}}

ScanHistoryNext ==
  \/ (\E e \in ScanEvents :
        Len(ScanAdded(history, e, clock)) <= MaxHistory /\ addScanEvent(e)) /\ UNCHANGED aux
  \/ clearScanHistory /\ UNCHANGED aux
  \/ /\ clock < ScanStepMs * MaxScanSteps
     /\ Idle
     /\ clock' = clock + ScanStepMs
     /\ UNCHANGED <<call, burst, scheduled>>

SpecScanHistory == Init /\ [][ScanHistoryNext]_vars

\* C21: addScanEvent for a barcode that has an entry written less than 10
\* seconds earlier changes that entry (its mode and its timestamp) and
\* leaves the length of the history and every other entry as they were;
\* otherwise it adds one entry at the front and moves the others one place
\* down.
C21_DedupeOrAddOne ==
  [][\A e \in ScanEvents :
       (last'.op = "addScanEvent" /\ history' = ScanAdded(history, e, clock)) =>
         LET recent == {i \in 1..Len(history) :
                          /\ history[i].barcode = e.barcode
                          /\ clock - history[i].createdAtISO < DedupeWindowMs}
         IN IF recent # {}
            THEN /\ Len(history') = Len(history)
                 /\ \E i \in recent :
                      /\ history'[i] = [history[i] EXCEPT !.mode = e.mode, !.createdAtISO = clock]
                      /\ \A j \in 1..Len(history) : j # i => history'[j] = history[j]
            ELSE /\ Len(history') = Len(history) + 1
                 /\ history'[1].barcode = e.barcode
                 /\ history'[1].mode = e.mode
                 /\ history'[1].createdAtISO = clock
                 /\ \A j \in 1..Len(history) : history'[j + 1] = history[j]]_vars

\* A scan of a barcode scanned 5 s before has changed the entry's mode and
\* timestamp, and the history still has its two entries.
C21_Witness ==
  /\ last = [op |-> "addScanEvent", hit |-> TRUE]
  /\ Len(history) = 2
  /\ \E i \in 1..2 :
       /\ history[i].createdAtISO = clock
       /\ history[i].id[1] = clock - ScanStepMs
       /\ history[i].mode = "allergy"

(***************************************************************************)
(* The two history stores filled to their limit (historyStore.ts 38-71,    *)
(* part_002 34-41)                                                         *)
(***************************************************************************)
\* logScanEvent: the scan event logHistoryEvent builds at time now (no
\* createdAt in the input, so Date.now() is taken).
ScanLogEvent(barcode, now) ==
  [type |-> "scan", createdAt |-> now, payload |-> [barcode |-> barcode]]

logScanEvent(barcode) ==
  /\ events' = logHistoryEvent(events, ScanLogEvent(barcode, clock))
  /\ Did("logScanEvent", Len(events) >= MAX_EVENTS)
  /\ UNCHANGED <<routine, mounted, items, loading, resp, err, timer, inflight, issued, sheet,
                 insightsVars, whatIfVars, otherScreens>>

clearHistoryEvents ==
  /\ events' = <<>>
  /\ Did("clearHistoryEvents", Len(events) > 0)
  /\ UNCHANGED <<routine, mounted, items, loading, resp, err, timer, inflight, issued, sheet,
                 insightsVars, whatIfVars, otherScreens>>

\* Bounds of the scenario: every call is LimitStepMs after the one before,
\* and the clock stops after MaxLimitSteps calls. The event store is filled
\* first, cleared only when empty-ish or full, and the scan history after it.
LimitStepMs == 10000

MaxLimitSteps == 610

LimitStep == clock' = clock + LimitStepMs /\ UNCHANGED <<call, burst, scheduled>>

LimitNext ==
  \/ /\ clock < LimitStepMs * MaxLimitSteps
     /\ history = <<>>
     /\ logScanEvent(Bar7)
     /\ LimitStep
  \/ /\ history = <<>>
     /\ Len(events) = MAX_EVENTS \/ (events # <<>> /\ clock <= LimitStepMs)
     /\ clearHistoryEvents
     /\ UNCHANGED aux
  \/ /\ clock < LimitStepMs * MaxLimitSteps
     /\ Len(events) = MAX_EVENTS
     /\ events[MAX_EVENTS].createdAt > 0
     /\ addScanEvent([barcode |-> Bar7, mode |-> "scanner"])
     /\ LimitStep

SpecLimit == Init /\ [][LimitNext]_vars

\* C29: the event store never holds more than 300 events, and what it holds
\* are the events logged last since the store was cleared (each LimitStepMs
\* before the one in front of it, the newest in front), so the events that
\* were dropped are the ones logged earliest; the scan history never holds
\* more than 300 entries either.
C29_AtMostLimit ==
  /\ Len(events) <= MAX_EVENTS
  /\ Len(history) <= MAX_EVENTS
  /\ \A i \in 1..(Len(events) - 1) : events[i + 1].createdAt = events[i].createdAt - LimitStepMs
  /\ last.op = "logScanEvent" => events[1].createdAt = clock - LimitStepMs
  /\ last.op = "addScanEvent" => history[1].createdAtISO = clock - LimitStepMs

\* Both stores hold 300 entries after more than 300 calls each: the first
\* events logged are gone from both.
C29_Witness ==
  /\ Len(events) = MAX_EVENTS
  /\ events[MAX_EVENTS].createdAt > 0
  /\ Len(history) = MAX_EVENTS
  /\ history[1].createdAtISO - history[MAX_EVENTS].createdAtISO = LimitStepMs * (MAX_EVENTS - 1)
  /\ history[MAX_EVENTS].createdAtISO > events[1].createdAt + LimitStepMs

(***************************************************************************)
(* ScanScreen: the variant with navigatingRef (src/unnamed/part_011) and   *)
(* the one with the product sheet (screens/ScanScreen.tsx)                 *)
(***************************************************************************)
DEBOUNCE_MS == 1200

NavigateDelayMs == 180

\* /^\d{8,14}$/.test(code)
IsBarcode(code) == Len(code) >= 8 /\ Len(code) <= 14 /\ \A i \in 1..Len(code) : IsDigit(code[i])

\* Mutant of Debounced: no callback is taken for a repetition.
Debounced_Never(prev, code, now) == FALSE

\* prev.code === code && now - prev.at < DEBOUNCE_MS
Debounced(prev, code, now) == prev.code = code /\ now - prev.at < DEBOUNCE_MS

\* useFocusEffect of either variant; navigatingRef exists in part_011 only
\* and is never set by the other variant.
focusScan(screen) ==
  /\ mounted \in {"none", screen}
  /\ ~scanFocused
  /\ mounted' = screen
  /\ scanFocused' = TRUE
  /\ navigatingRef' = FALSE
  /\ lastScanRef' = [code |-> <<>>, at |-> 0]
  /\ Did("focusScan", mounted = screen)
  /\ UNCHANGED <<routine, checkVars, insightsVars, whatIfVars, productVars, history,
                 scanMode, sheetBarcode, navTimers>>

\* The user leaves the screen for another one.
blurScan ==
  /\ scanFocused
  /\ scanFocused' = FALSE
  /\ Did("blurScan", TRUE)
  /\ UNCHANGED <<routine, mounted, checkVars, insightsVars, whatIfVars, productVars, history,
                 scanMode, sheetBarcode, lastScanRef, navigatingRef, navTimers>>

setMode(m) ==
  /\ scanFocused
  /\ m # scanMode
  /\ scanMode' = m
  /\ Did("setMode", TRUE)
  /\ UNCHANGED <<routine, mounted, checkVars, insightsVars, whatIfVars, productVars, history,
                 scanFocused, sheetBarcode, lastScanRef, navigatingRef, navTimers>>

\* part_011 90-123. The camera calls it only while the screen is focused and
\* the mode is not "ai" (131-136).
onScannedFlag(raw) ==
  LET code == trim(raw)
      ignored == navigatingRef \/ code = <<>> \/ Debounced(lastScanRef, code, clock)
  IN /\ mounted = "ScanFlag"
     /\ scanFocused
     /\ scanMode # "ai"
     /\ IF ignored
        THEN UNCHANGED <<lastScanRef, navigatingRef, navTimers>>
        ELSE /\ lastScanRef' = [code |-> code, at |-> clock]
             /\ navigatingRef' = IsBarcode(code)
             /\ navTimers' = IF IsBarcode(code)
                             THEN navTimers \cup {[barcode |-> code, due |-> clock + NavigateDelayMs]}
                             ELSE navTimers
     /\ Did("onScanned", ~ignored)
     /\ UNCHANGED <<routine, mounted, checkVars, insightsVars, whatIfVars, productVars, history,
                    scanFocused, scanMode, sheetBarcode>>

\* The callback of setTimeout(..., 180): navigation.navigate("Product", ...)
\* puts the product screen in front of the scan screen.
navigateTimer(t) ==
  /\ clock >= t.due
  /\ navTimers' = navTimers \ {t}
  /\ scanFocused' = FALSE
  /\ Did("navigate", scanFocused)
  /\ UNCHANGED <<routine, mounted, checkVars, insightsVars, whatIfVars, productVars, history,
                 scanMode, sheetBarcode, lastScanRef, navigatingRef>>

\* ScanScreen.tsx 321-349, with openProduct (264-272) and the sheet opened
\* by loadProductForSheet (274-283). Scanning is enabled while the screen is
\* focused, the mode is not "ai" and the sheet is hidden (393).
onScanned(raw) ==
  LET code == trim(raw)
      ignored == code = <<>> \/ ~IsBarcode(code) \/ Debounced(lastScanRef, code, clock)
  IN /\ mounted = "Scan"
     /\ scanFocused
     /\ scanMode # "ai"
     /\ sheetBarcode = None
     /\ IF ignored
        THEN UNCHANGED <<lastScanRef, history, sheetBarcode, scanFocused>>
        ELSE /\ lastScanRef' = [code |-> code, at |-> clock]
             /\ history' = ScanAdded(history, [barcode |-> code, mode |-> scanMode], clock)
             /\ IF scanMode \in {"eco", "diet", "allergy"}
                THEN sheetBarcode' = Some(code) /\ UNCHANGED scanFocused
                ELSE scanFocused' = FALSE /\ UNCHANGED sheetBarcode
     /\ Did("onScanned", ~ignored)
     /\ UNCHANGED <<routine, mounted, checkVars, insightsVars, whatIfVars, productVars,
                    scanMode, navigatingRef, navTimers>>

\* ScanScreen.tsx 306-309
closeScanSheet ==
  /\ sheetBarcode # None
  /\ lastScanRef' = [code |-> Val(sheetBarcode), at |-> clock]
  /\ sheetBarcode' = None
  /\ Did("closeSheet", TRUE)
  /\ UNCHANGED <<routine, mounted, checkVars, insightsVars, whatIfVars, productVars, history,
                 scanFocused, scanMode, navigatingRef, navTimers>>

\* The observer of the scans: the code and time of the last one taken, and
\* the navigations started (a timer set, or the product screen opened).
ObserveScan ==
  /\ scheduled' =
       IF last'.hit
       THEN [n |-> scheduled.n +
                   (IF navTimers' # navTimers \/ scanFocused' # scanFocused THEN 1 ELSE 0),
             code |-> lastScanRef'.code, at |-> clock, refocused |-> FALSE]
       ELSE scheduled
  /\ UNCHANGED <<call, burst, clock>>

ObserveFocus ==
  /\ scheduled' = [scheduled EXCEPT !.n = 0, !.refocused = TRUE]
  /\ UNCHANGED <<call, burst, clock>>

\* Bounds of the scenario: the camera reads two barcodes (one of them with
\* blanks around it), a code that is no barcode and a blank string; the
\* clock advances in steps of ScanTickMs up to MaxScanTicks steps.
CodeA == <<"1", "0", "0", "0", "0", "0", "0", "1">>

CodeB == <<"2", "0", "0", "0", "0", "0", "0", "2">>

CodeQR == <<"E", "1", "0", "2">>

ScannedTexts == {CodeA, <<" ">> \o CodeA, CodeB, CodeQR, <<" ">>}

ScanTickMs == 400

MaxScanTicks == 4

ScanScreenNext ==
  \/ (\E screen \in {"ScanFlag", "Scan"} : focusScan(screen)) /\ ObserveFocus
  \/ blurScan /\ UNCHANGED aux
  \/ (\E m \in {"scanner", "allergy", "ai"} : setMode(m)) /\ UNCHANGED aux
  \/ (\E raw \in ScannedTexts : onScannedFlag(raw)) /\ ObserveScan
  \/ (\E t \in navTimers : navigateTimer(t)) /\ UNCHANGED aux
  \/ (\E raw \in ScannedTexts : onScanned(raw)) /\ ObserveScan
  \/ closeScanSheet /\ UNCHANGED aux
  \/ /\ clock < ScanTickMs * MaxScanTicks
     /\ Idle
     /\ clock' = clock + ScanTickMs
     /\ UNCHANGED <<call, burst, scheduled>>

SpecScanScreen == Init /\ [][ScanScreenNext]_vars

MaxLoads == 3

\* buildPlaceholderProduct(barcode)
PlaceholderProduct(barcode) == [barcode |-> barcode, loaded |-> FALSE, additives |-> <<>>, enriched |-> FALSE]

\* mergeApiIntoProduct(base, api)
mergeApiIntoProduct(base, api) == [base EXCEPT !.loaded = TRUE, !.additives = api.additives]

\* The answers of GET /products/:barcode the scenario draws from.
ProductAnswers == {[additives |-> <<>>], [additives |-> <<E330>>]}

\* logAllergyCheckEvent, as it reaches logHistoryEvent at time now
AllergyLogEvent(barcode, now) ==
  [type |-> "allergy_check", createdAt |-> now, payload |-> [barcode |-> barcode]]

\* Lines 441-476: setProduct(merged), then the history events. setProduct
\* does nothing once the component that started the run is unmounted.
ProductApplied(run, merged) ==
  /\ product' = IF run.unmounted THEN product ELSE Some(merged)
  /\ events' =
       LET evs == IF run.tab = "Allergens"
                  THEN logHistoryEvent(events, AllergyLogEvent(merged.barcode, clock))
                  ELSE events
       IN logHistoryEvent(evs, ScanLogEvent(merged.barcode, clock))

\* The cleanup of the effect: cancelled = true; if (t) clearTimeout(t)
CleanedUp(runs, unmount) ==
  {[r EXCEPT !.cancelled = TRUE, !.unmounted = @ \/ unmount] : r \in {q \in runs : q.pc # "timer"}}

\* The screen is opened for a barcode, or its barcode parameter changes: the
\* effect of the barcode before is cleaned up and run() starts.
showProduct(barcode, tab) ==
  /\ mounted \in {"none", "Product"}
  /\ productBarcode # Some(barcode)
  /\ productIssued < MaxLoads
  /\ mounted' = "Product"
  /\ productBarcode' = Some(barcode)
  /\ productIssued' = productIssued + 1
  /\ productLoading' = TRUE
  /\ product' = Some(PlaceholderProduct(barcode))
  /\ productRuns' = CleanedUp(productRuns, FALSE) \cup
       {[id |-> productIssued + 1, barcode |-> barcode, tab |-> tab, cancelled |-> FALSE,
         unmounted |-> FALSE, pc |-> "get", merged |-> PlaceholderProduct(barcode)]}
  /\ Did("showProduct", productBarcode # None)
  /\ UNCHANGED <<routine, checkVars, insightsVars, whatIfVars, scanVars>>

\* The screen is removed from the stack.
unmountProduct ==
  /\ productBarcode # None
  /\ productBarcode' = None
  /\ product' = None
  /\ productLoading' = FALSE
  /\ productRuns' = CleanedUp(productRuns, TRUE)
  /\ Did("unmountProduct", productRuns # {})
  /\ UNCHANGED <<routine, mounted, checkVars, insightsVars, whatIfVars, scanVars, productIssued>>

\* Line 409 returns. A cancelled run returns at line 411 (its finally sets a
\* timer that does nothing); a product with additives goes on to
\* /additives/batch; one without is applied.
getResolves(run, api) ==
  LET merged == mergeApiIntoProduct(run.merged, api)
  IN /\ run.pc = "get"
     /\ IF run.cancelled
        THEN /\ productRuns' = productRuns \ {run}
             /\ UNCHANGED <<product, events>>
        ELSE IF merged.additives # <<>>
        THEN /\ productRuns' = (productRuns \ {run}) \cup {[run EXCEPT !.pc = "batch", !.merged = merged]}
             /\ UNCHANGED <<product, events>>
        ELSE /\ productRuns' = (productRuns \ {run}) \cup {[run EXCEPT !.pc = "timer", !.merged = merged]}
             /\ ProductApplied(run, merged)
     /\ Did("getResolves", ~run.cancelled)
     /\ UNCHANGED <<routine, mounted, items, loading, resp, err, timer, inflight, issued, sheet,
                    insightsVars, whatIfVars, scanVars, productBarcode, productLoading,
                    productIssued>>

\* Line 409 throws: the catch at 477 warns, the finally sets the timer.
getRejects(run) ==
  /\ run.pc = "get"
  /\ productRuns' = (productRuns \ {run}) \cup
       (IF run.cancelled THEN {} ELSE {[run EXCEPT !.pc = "timer"]})
  /\ Did("getRejects", ~run.cancelled)
  /\ UNCHANGED <<routine, mounted, checkVars, insightsVars, whatIfVars, scanVars,
                 productBarcode, product, productLoading, productIssued>>

\* Line 419 returns (ok) or throws (the catch at 436 keeps the list): lines
\* 441-476 follow with no look at cancelled.
batchReturns(run, ok) ==
  LET merged == [run.merged EXCEPT !.enriched = ok]
  IN /\ run.pc = "batch"
     /\ ProductApplied(run, merged)
     /\ productRuns' = (productRuns \ {run}) \cup
          (IF run.cancelled THEN {} ELSE {[run EXCEPT !.pc = "timer", !.merged = merged]})
     /\ Did("batchReturns", ~run.cancelled)
     /\ UNCHANGED <<routine, mounted, items, loading, resp, err, timer, inflight, issued, sheet,
                    insightsVars, whatIfVars, scanVars, productBarcode, productLoading,
                    productIssued>>

\* The timer of the finally block (482-484), not cleared by a cleanup.
loadingTimer(run) ==
  /\ run.pc = "timer"
  /\ productRuns' = productRuns \ {run}
  /\ productLoading' = FALSE
  /\ Did("loadingTimer", TRUE)
  /\ UNCHANGED <<routine, mounted, checkVars, insightsVars, whatIfVars, scanVars,
                 productBarcode, product, productIssued>>

ProductNext ==
  \/ (\E barcode \in {CodeA, CodeB}, tab \in {"Health", "Allergens"} :
        showProduct(barcode, tab)) /\ UNCHANGED aux
  \/ unmountProduct /\ UNCHANGED aux
  \/ (\E run \in productRuns, api \in ProductAnswers : getResolves(run, api)) /\ UNCHANGED aux
  \/ (\E run \in productRuns : getRejects(run)) /\ UNCHANGED aux
  \/ (\E run \in productRuns, ok \in BOOLEAN : batchReturns(run, ok)) /\ UNCHANGED aux
  \/ (\E run \in productRuns : loadingTimer(run)) /\ UNCHANGED aux

SpecProduct == Init /\ [][ProductNext]_vars

\* C24: a step of a load whose effect was cleaned up (the barcode changed or
\* the screen was unmounted) neither sets the product state nor logs a
\* history event.
C24_CancelledNeverApplied ==
  [][(last'.op \in {"getResolves", "getRejects", "batchReturns"} /\ ~last'.hit) =>
       UNCHANGED <<product, events>>]_vars

====
